---- MODULE Spec2Model ----
(***************************************************************************)
(* Model of Main.py: the simulated GPS tracker.                            *)
(*                                                                         *)
(* Coordinates and steps are fixed-point numbers: one unit is one grid     *)
(* cell, and the valid range of a latitude is -90..90 cells, of a          *)
(* longitude -180..180 cells.  random.random() is modelled as r / RandRes  *)
(* for r in 0..RandRes-1 (it returns a value in [0.0, 1.0)), and           *)
(* random.uniform(a, b) as CPython computes it, a + (b-a) * random(), the  *)
(* product rounded to the grid (round half to even, as floats round).      *)
(* The walk of the script itself (100 points, max_step 0.0008) is scaled   *)
(* to RunPoints points with steps of at most RunStep cells.                *)
(*                                                                         *)
(* Spec is the script; PathSpec is generate_random_path called on its own  *)
(* with any arguments.  Exceptions are those derived from Exception, the   *)
(* ones a failing collaborator raises.                                     *)
(***************************************************************************)
EXTENDS Integers, Sequences, FiniteSets

\* ---------------------------------------------------------------- bounds
\* Longest input line the user types.
MaxLen == 2
\* Values random.random() can take: r / RandRes, r in 0..RandRes-1.
RandRes == 4
\* Largest num_points the generator is called with on its own.
MaxPoints == 3
\* Largest max_step the generator is called with on its own.
MaxStep == 2
\* num_points at the call of line 70 (100 in the source, scaled down).
RunPoints == 3
\* max_step at the call of line 70 (0.0008 in the source, in grid cells).
RunStep == 1

\* Characters of an input line: two whitespace characters and a letter.
Chars == {" ", "\t", "a"}
Whitespace == {" ", "\t"}

\* Coordinates a caller passes / the geocoder resolves (all valid).
StartLats == {-90, 0, 90}
StartLons == {-180, 7}
\* Coordinates the geocoder resolves an address to.
Locations == {<<0, 7>>, <<90, -180>>}
\* Texts of the exceptions a collaborator may raise.
ExcTexts == {"timed out", "permission denied"}

VARIABLES
    pc,                \* position of the script
    retpc,             \* where generate_random_path returns to
    starting_location, \* the line read by input()
    output,            \* lines printed so far
    location,          \* result of geolocator.geocode: <<>> (None) or <<lat, lon>>
    map_made,          \* folium.Map object exists
    num_points, max_step, start_lat, start_lon,  \* arguments of generate_random_path
    path, current_lat, current_lon, iter,        \* its locals; iter counts loop rounds
    draws,             \* calls of random.uniform so far
    gps_path,          \* value returned by generate_random_path
    markers,           \* locations of the start and end markers
    file,              \* gps_tracking_map.html: "untouched", "partial" or "complete"
    browser,           \* webbrowser.open: "uncalled", "shown", "refused"
    caught,            \* times the except clause of line 103 ran
    raised,            \* step that raised, "" if none
    exc,               \* text of the exception it raised
    steps              \* steps begun so far, in order

vars == <<pc, retpc, starting_location, output, location, map_made, num_points,
          max_step, start_lat, start_lon, path, current_lat, current_lon, iter,
          draws, gps_path, markers, file, browser, caught, raised, exc, steps>>

mainVars == <<starting_location, output, location, map_made, markers, file,
              browser, caught, raised, exc, steps>>

\* ------------------------------------------------------------- helpers
\* x / d rounded to the nearest integer, ties to even (x >= 0, d > 0).
RoundDiv(x, d) ==
    LET q == x \div d
        rem == x % d
    IN  IF 2 * rem < d THEN q
        ELSE IF 2 * rem > d THEN q + 1
        ELSE IF q % 2 = 0 THEN q ELSE q + 1

\* A mutant of uniform: the scale (b - a) applied to r itself, not r / RandRes.
Uniform_unscaled(a, b, r) == a + (b - a) * r
\* A mutant of uniform: an offset of r cells, whatever the width b - a.
Uniform_offset(a, b, r) == a + r
\* random.uniform(a, b) == a + (b - a) * random(), random() == r / RandRes.
Uniform(a, b, r) == a + RoundDiv((b - a) * r, RandRes)

\* A mutant of range: one round too many (range(num_points)).
RangeLen_off(n) == IF n > 0 THEN n ELSE 0
\* len(range(num_points - 1)): the rounds of the loop of line 31.
RangeLen(n) == IF n - 1 > 0 THEN n - 1 ELSE 0

\* A mutant of the += of lines 37-38: the step applied twice.
ApplyStep_twice(cur, step) == cur + step + step
\* current += step (lines 37-38).
ApplyStep(cur, step) == cur + step

\* --------------------------------------------- generate_random_path
\* Lines 28-29: the call binds the arguments and the first locals.
GenEnter(lat, lon, n, m, ret) ==
    /\ start_lat' = lat
    /\ start_lon' = lon
    /\ num_points' = n
    /\ max_step' = m
    /\ path' = << <<lat, lon>> >>
    /\ current_lat' = lat
    /\ current_lon' = lon
    /\ iter' = 0
    /\ retpc' = ret

\* Lines 31-39: one round of the loop.
GenLoop ==
    /\ pc = "gen_loop"
    /\ iter < RangeLen(num_points)
    /\ \E r1, r2 \in 0 .. RandRes - 1 :
         LET step_lat == Uniform(-max_step, max_step, r1)
             step_lon == Uniform(-max_step, max_step, r2)
         IN  /\ current_lat' = ApplyStep(current_lat, step_lat)
             /\ current_lon' = ApplyStep(current_lon, step_lon)
             /\ path' = Append(path, <<current_lat', current_lon'>>)
    /\ draws' = draws + 2
    /\ iter' = iter + 1
    /\ UNCHANGED <<pc, retpc, num_points, max_step, start_lat, start_lon, gps_path>>
    /\ UNCHANGED mainVars

\* Line 41: the loop is over, the path is returned to the caller.
GenReturn ==
    /\ pc = "gen_loop"
    /\ iter >= RangeLen(num_points)
    /\ gps_path' = path
    /\ pc' = retpc
    /\ UNCHANGED <<retpc, num_points, max_step, start_lat, start_lon, path,
                   current_lat, current_lon, iter, draws>>
    /\ UNCHANGED mainVars

\* ------------------------------------------------------------ the script
\* All lines of at most n characters.
RECURSIVE Lines(_)
Lines(n) ==
    IF n = 0 THEN {<<>>}
    ELSE Lines(n - 1) \cup {Append(s, c) : s \in {t \in Lines(n - 1) : Len(t) = n - 1}, c \in Chars}

Inputs == Lines(MaxLen)

\* str.lstrip() and str.rstrip(): leading / trailing whitespace removed.
RECURSIVE LStrip(_)
LStrip(s) == IF s # <<>> /\ Head(s) \in Whitespace THEN LStrip(Tail(s)) ELSE s
RECURSIVE RStrip(_)
RStrip(s) ==
    IF s # <<>> /\ s[Len(s)] \in Whitespace THEN RStrip(SubSeq(s, 1, Len(s) - 1)) ELSE s

\* A mutant of strip: nothing removed.
Strip_none(s) == s
\* str.strip() (line 113).
Strip(s) == RStrip(LStrip(s))

\* A printed line: what it says, and the address, exception text or
\* coordinates formatted into it.
Msg(tag, addr, text, at) == [tag |-> tag, addr |-> addr, text |-> text, at |-> at]

\* A mutant of the handler: the except clause does not match, the
\* exception leaves create_tracking_map and the interpreter prints a traceback.
Except_uncaught(e) ==
    /\ pc' = "crashed"
    /\ UNCHANGED <<output, caught>>
\* Lines 103-105: except Exception as e: two lines printed, the function returns.
Except(e) ==
    /\ output' = output \o << Msg("An error occurred", <<>>, e, <<>>),
                              Msg("Please check", <<>>, "", <<>>) >>
    /\ caught' = caught + 1
    /\ pc' = "done"

genVars == <<retpc, num_points, max_step, start_lat, start_lon, path,
             current_lat, current_lon, iter, draws, gps_path>>

\* Line 110: input().
MainInput ==
    /\ pc = "input"
    /\ \E s \in Inputs : starting_location' = s
    /\ pc' = "check"
    /\ UNCHANGED <<output, location, map_made, markers, file, browser, caught,
                   raised, exc, steps>>
    /\ UNCHANGED genVars

\* Lines 113, 115-116: the stripped line is empty.
MainBlank ==
    /\ pc = "check"
    /\ Strip(starting_location) = <<>>
    /\ output' = Append(output, Msg("No location entered", <<>>, "", <<>>))
    /\ pc' = "done"
    /\ UNCHANGED <<starting_location, location, map_made, markers, file, browser,
                   caught, raised, exc, steps>>
    /\ UNCHANGED genVars

\* Lines 113-114 and 50: create_tracking_map is called and prints its first line.
MainCall ==
    /\ pc = "check"
    /\ Strip(starting_location) # <<>>
    /\ output' = Append(output, Msg("Finding coordinates", starting_location, "", <<>>))
    /\ pc' = "geocode"
    /\ UNCHANGED <<starting_location, location, map_made, markers, file, browser,
                   caught, raised, exc, steps>>
    /\ UNCHANGED genVars

\* Lines 54-55, 57, 61-62: the geocoder resolves the address.
GeocodeFound ==
    /\ pc = "geocode"
    /\ \E loc \in Locations :
         /\ location' = loc
         /\ output' = Append(output, Msg("Coordinates found", <<>>, "", loc))
    /\ steps' = Append(steps, "geocode")
    /\ pc' = "map"
    /\ UNCHANGED <<starting_location, map_made, markers, file, browser, caught, raised, exc>>
    /\ UNCHANGED genVars

\* Lines 54-55, 57-59: the geocoder returns None.
GeocodeNotFound ==
    /\ pc = "geocode"
    /\ location' = <<>>
    /\ output' = Append(output, Msg("Could not find coordinates", starting_location, "", <<>>))
    /\ steps' = Append(steps, "geocode")
    /\ pc' = "done"
    /\ UNCHANGED <<starting_location, map_made, markers, file, browser, caught, raised, exc>>
    /\ UNCHANGED genVars

\* A mutant of a failing lookup: the call stands outside the try statement.
GeocodeRaise_outside ==
    /\ pc = "geocode"
    /\ \E e \in ExcTexts : exc' = e
    /\ steps' = Append(steps, "geocode")
    /\ raised' = "geocode"
    /\ pc' = "crashed"
    /\ UNCHANGED <<starting_location, output, location, map_made, markers, file,
                   browser, caught>>
    /\ UNCHANGED genVars
\* Lines 54-55, 103-105: Nominatim or geocode raises.
GeocodeRaise ==
    /\ pc = "geocode"
    /\ \E e \in ExcTexts : Except(e) /\ exc' = e
    /\ steps' = Append(steps, "geocode")
    /\ raised' = "geocode"
    /\ UNCHANGED <<starting_location, location, map_made, markers, file, browser>>
    /\ UNCHANGED genVars

\* Line 66: the map object is created.
MakeMap ==
    /\ pc = "map"
    /\ map_made' = TRUE
    /\ steps' = Append(steps, "map")
    /\ pc' = "generate"
    /\ UNCHANGED <<starting_location, output, location, markers, file, browser,
                   caught, raised, exc>>
    /\ UNCHANGED genVars

\* Lines 66, 103-105: folium.Map raises.
MakeMapRaise ==
    /\ pc = "map"
    /\ \E e \in ExcTexts : Except(e) /\ exc' = e
    /\ steps' = Append(steps, "map")
    /\ raised' = "map"
    /\ UNCHANGED <<starting_location, location, map_made, markers, file, browser>>
    /\ UNCHANGED genVars

\* Lines 69-70: the line printed, generate_random_path called.
GenCall ==
    /\ pc = "generate"
    /\ output' = Append(output, Msg("Generating", <<>>, "", <<>>))
    /\ GenEnter(location[1], location[2], RunPoints, RunStep, "render")
    /\ steps' = Append(steps, "generate")
    /\ pc' = "gen_loop"
    /\ UNCHANGED <<starting_location, location, map_made, markers, file, browser,
                   caught, raised, exc, draws, gps_path>>

\* Lines 73-92: the line and the two markers are added to the map.
Render ==
    /\ pc = "render"
    /\ markers' = <<gps_path[1], gps_path[Len(gps_path)]>>
    /\ steps' = Append(steps, "render")
    /\ pc' = "save"
    /\ UNCHANGED <<starting_location, output, location, map_made, file, browser,
                   caught, raised, exc>>
    /\ UNCHANGED genVars

\* Lines 73-92, 103-105: PolyLine, Marker, Icon or add_to raises.
RenderRaise ==
    /\ pc = "render"
    /\ \E e \in ExcTexts : Except(e) /\ exc' = e
    /\ steps' = Append(steps, "render")
    /\ raised' = "render"
    /\ UNCHANGED <<starting_location, location, map_made, markers, file, browser>>
    /\ UNCHANGED genVars

\* A mutant of the save: the success lines are not printed.
SaveOk_silent ==
    /\ pc = "save"
    /\ file' = "complete"
    /\ steps' = Append(steps, "save")
    /\ pc' = "open"
    /\ UNCHANGED <<starting_location, output, location, map_made, markers, browser,
                   caught, raised, exc>>
    /\ UNCHANGED genVars
\* Lines 95-98: the file is written, the two success lines are printed.
SaveOk ==
    /\ pc = "save"
    /\ file' = "complete"
    /\ output' = output \o << Msg("Map has been created successfully", <<>>, "", <<>>),
                              Msg("Saved as", <<>>, "gps_tracking_map.html", <<>>) >>
    /\ steps' = Append(steps, "save")
    /\ pc' = "open"
    /\ UNCHANGED <<starting_location, location, map_made, markers, browser, caught, raised, exc>>
    /\ UNCHANGED genVars

\* A mutant of a failing save: the exception is swallowed and the run goes on.
SaveRaise_swallowed ==
    /\ pc = "save"
    /\ file' \in {file, "partial"}
    /\ steps' = Append(steps, "save")
    /\ raised' = "save"
    /\ \E e \in ExcTexts : exc' = e
    /\ pc' = "open"
    /\ UNCHANGED <<starting_location, output, location, map_made, markers, browser, caught>>
    /\ UNCHANGED genVars
\* Lines 96, 103-105: m.save raises, before or after it began to write.
SaveRaise ==
    /\ pc = "save"
    /\ \E e \in ExcTexts : Except(e) /\ exc' = e
    /\ file' \in {file, "partial"}
    /\ steps' = Append(steps, "save")
    /\ raised' = "save"
    /\ UNCHANGED <<starting_location, location, map_made, markers, browser>>
    /\ UNCHANGED genVars

\* Line 101: webbrowser.open returns True (shown) or False (no browser
\* could be launched); the result is ignored and the function ends.
OpenBrowser ==
    /\ pc = "open"
    /\ browser' \in {"shown", "refused"}
    /\ steps' = Append(steps, "open")
    /\ pc' = "done"
    /\ UNCHANGED <<starting_location, output, location, map_made, markers, file,
                   caught, raised, exc>>
    /\ UNCHANGED genVars

\* Lines 101, 103-105: os.path.realpath or webbrowser.open raises.
OpenRaise ==
    /\ pc = "open"
    /\ \E e \in ExcTexts : Except(e) /\ exc' = e
    /\ browser' = "refused"
    /\ steps' = Append(steps, "open")
    /\ raised' = "open"
    /\ UNCHANGED <<starting_location, location, map_made, markers, file>>
    /\ UNCHANGED genVars

\* The script is started.
Init ==
    /\ pc = "input"
    /\ retpc = ""
    /\ starting_location = <<>>
    /\ output = <<>>
    /\ location = <<>>
    /\ map_made = FALSE
    /\ num_points = 0
    /\ max_step = 0
    /\ start_lat = 0
    /\ start_lon = 0
    /\ path = <<>>
    /\ current_lat = 0
    /\ current_lon = 0
    /\ iter = 0
    /\ draws = 0
    /\ gps_path = <<>>
    /\ markers = <<>>
    /\ file = "untouched"
    /\ browser = "uncalled"
    /\ caught = 0
    /\ raised = ""
    /\ exc = ""
    /\ steps = <<>>

Next ==
    \/ MainInput \/ MainBlank \/ MainCall
    \/ GeocodeFound \/ GeocodeNotFound \/ GeocodeRaise
    \/ MakeMap \/ MakeMapRaise
    \/ GenCall \/ GenLoop \/ GenReturn
    \/ Render \/ RenderRaise
    \/ SaveOk \/ SaveRaise
    \/ OpenBrowser \/ OpenRaise

Spec == Init /\ [][Next]_vars

\* The interpreter runs the script to its end: no step waits for another.
FairSpec == Spec /\ WF_vars(Next)

\* generate_random_path called on its own, with any arguments.
PathInit ==
    /\ pc = "gen_loop"
    /\ retpc = "returned"
    /\ start_lat \in StartLats
    /\ start_lon \in StartLons
    /\ num_points \in -1 .. MaxPoints
    /\ max_step \in 0 .. MaxStep
    /\ path = << <<start_lat, start_lon>> >>
    /\ current_lat = start_lat
    /\ current_lon = start_lon
    /\ iter = 0
    /\ draws = 0
    /\ gps_path = <<>>
    /\ starting_location = <<>>
    /\ output = <<>>
    /\ location = <<>>
    /\ map_made = FALSE
    /\ markers = <<>>
    /\ file = "untouched"
    /\ browser = "uncalled"
    /\ caught = 0
    /\ raised = ""
    /\ exc = ""
    /\ steps = <<>>

PathNext == GenLoop \/ GenReturn

PathSpec == PathInit /\ [][PathNext]_vars

\* ---------------------------------------------------------------- claims
\* The vocabulary of the claims, stated apart from the code's operators.
Start == <<start_lat, start_lon>>
Abs(x) == IF x < 0 THEN -x ELSE x
\* A line saying `tag` has been printed.
Printed(tag) == \E k \in 1 .. Len(output) : output[k].tag = tag
ValidLat(lat) == -90 <= lat /\ lat <= 90
ValidLon(lon) == -180 <= lon /\ lon <= 180
\* A line that is empty or holds whitespace only.
BlankLine(s) == \A k \in 1 .. Len(s) : s[k] \in Whitespace
Returned == pc = "returned"
IsPrefix(s, t) == Len(s) <= Len(t) /\ \A k \in 1 .. Len(s) : s[k] = t[k]
\* The steps the orchestration names, in their order.
Order == <<"geocode", "generate", "render", "save", "open">>
NamedSteps == SelectSeq(steps, LAMBDA x : x # "map")
GeocoderCalled == \E k \in 1 .. Len(steps) : steps[k] = "geocode"
ErrorLine(e) == Msg("An error occurred", <<>>, e, <<>>)

\* C1: a path returned for num_points >= 1 has exactly num_points elements
\* and its first element is the start coordinate; for num_points = 1 it is
\* [start] and random.uniform was never called.
C1_LengthAndStart ==
    (Returned /\ num_points >= 1) =>
        /\ Len(gps_path) = num_points
        /\ gps_path[1] = Start
        /\ (num_points = 1 => gps_path = <<Start>> /\ draws = 0)

\* A walk of several points that moved away from its start has been returned.
C1_Witness ==
    /\ Returned
    /\ num_points >= 2
    /\ Len(gps_path) = num_points
    /\ gps_path[num_points] # Start

\* C2, as claimed: in a returned path with num_points >= 2 and max_step > 0,
\* the latitude difference and the longitude difference of every two
\* consecutive points lie strictly between -max_step and max_step.
C2_OpenInterval ==
    (Returned /\ num_points >= 2 /\ max_step > 0) =>
        \A k \in 2 .. Len(gps_path) :
            /\ -max_step < gps_path[k][1] - gps_path[k - 1][1]
            /\ gps_path[k][1] - gps_path[k - 1][1] < max_step
            /\ -max_step < gps_path[k][2] - gps_path[k - 1][2]
            /\ gps_path[k][2] - gps_path[k - 1][2] < max_step

\* C2, amended: the differences lie in the closed interval from -max_step
\* to max_step; a step of exactly -max_step is drawn when random() is 0.
C2_ClosedInterval ==
    (Returned /\ num_points >= 2 /\ max_step > 0) =>
        \A k \in 2 .. Len(gps_path) :
            /\ -max_step <= gps_path[k][1] - gps_path[k - 1][1]
            /\ gps_path[k][1] - gps_path[k - 1][1] <= max_step
            /\ -max_step <= gps_path[k][2] - gps_path[k - 1][2]
            /\ gps_path[k][2] - gps_path[k - 1][2] <= max_step

\* A returned path holds a step of exactly -max_step on one axis.
C2_Witness ==
    /\ Returned
    /\ num_points >= 2
    /\ max_step > 0
    /\ \E k \in 2 .. Len(gps_path) : gps_path[k][1] - gps_path[k - 1][1] = -max_step

\* C3, as claimed: a call with a negative num_points is rejected, it
\* returns no path.
C3_NegativeRejected == num_points < 0 => (~Returned /\ gps_path = <<>>)

\* C8: with max_step = 0 every element of a returned path of num_points >= 1
\* elements equals the start coordinate.
C8_ZeroStepStays ==
    (Returned /\ num_points >= 1 /\ max_step = 0) =>
        \A k \in 1 .. Len(gps_path) : gps_path[k] = Start

\* A path of several points has been returned by a walk with max_step = 0
\* that drew its random samples.
C8_Witness ==
    /\ Returned
    /\ max_step = 0
    /\ num_points >= 2
    /\ Len(gps_path) = num_points
    /\ draws > 0

\* C9, as claimed: every point of a path generated from a valid start has its
\* latitude in -90..90 and its longitude in -180..180.
C9_AlwaysInRange ==
    (ValidLat(start_lat) /\ ValidLon(start_lon)) =>
        \A k \in 1 .. Len(path) : ValidLat(path[k][1]) /\ ValidLon(path[k][2])

\* C9, amended: only the first point of a path generated from a valid start
\* is sure to be in range; point k lies within (k-1) * max_step of the start
\* on each axis, and nothing keeps it inside the ranges.
C9_DriftBound ==
    (ValidLat(start_lat) /\ ValidLon(start_lon)) =>
        \A k \in 1 .. Len(path) :
            /\ k = 1 => ValidLat(path[k][1]) /\ ValidLon(path[k][2])
            /\ Abs(path[k][1] - start_lat) <= (k - 1) * max_step
            /\ Abs(path[k][2] - start_lon) <= (k - 1) * max_step

\* A returned path that began at a valid start holds a point beyond the pole.
C9_Witness ==
    /\ Returned
    /\ ValidLat(start_lat) /\ ValidLon(start_lon)
    /\ \E k \in 2 .. Len(gps_path) : ~ValidLat(gps_path[k][1])

\* C4: a run whose input line is blank never calls the geocoder, never writes
\* the file and never opens the browser; it prints the one informational
\* line and ends.
C4_BlankSafe ==
    (pc # "input" /\ BlankLine(starting_location)) =>
        /\ ~GeocoderCalled
        /\ steps = <<>>
        /\ location = <<>>
        /\ file = "untouched"
        /\ browser = "uncalled"
        /\ pc \in {"check", "done"}
        /\ (pc = "done" => output = <<Msg("No location entered", <<>>, "", <<>>)>>)
C4_BlankInputStops ==
    /\ []C4_BlankSafe
    /\ (pc = "check" /\ BlankLine(starting_location)) ~> (pc = "done")

\* A run given a line of whitespace has ended with its message.
C4_Witness ==
    /\ pc = "done"
    /\ starting_location # <<>>
    /\ BlankLine(starting_location)
    /\ Printed("No location entered")

\* C5: when the lookup fails, by an empty result or by an exception, the run
\* ends with a diagnostic printed, no path generated, no file written, no
\* browser opened, and no crash.
C5_UnresolvedAborts ==
    (GeocoderCalled /\ location = <<>>) =>
        /\ pc = "done"
        /\ Printed("Could not find coordinates") \/ Printed("An error occurred")
        /\ steps = <<"geocode">>
        /\ path = <<>> /\ gps_path = <<>>
        /\ ~map_made /\ markers = <<>>
        /\ file = "untouched"
        /\ browser = "uncalled"

\* A run whose lookup raised has ended with the handler's diagnostic.
C5_Witness ==
    /\ pc = "done"
    /\ raised = "geocode"
    /\ location = <<>>
    /\ Printed("An error occurred")

\* C6: an exception raised by any step is caught once by the handler, which
\* prints a line holding the exception's text; no run crashes, every run that
\* ended has printed a line, and every run given a non-blank line ends.
C6_Safe ==
    /\ pc # "crashed"
    /\ caught = (IF raised = "" THEN 0 ELSE 1)
    /\ raised # "" =>
          /\ pc = "done"
          /\ Len(output) >= 2
          /\ output[Len(output) - 1] = ErrorLine(exc)
    /\ pc = "done" => Len(output) >= 1
C6_CaughtOnceAndEnds ==
    /\ []C6_Safe
    /\ (pc = "geocode") ~> (pc = "done")

\* A run that saved the file and whose browser launch raised has ended in the
\* handler.
C6_Witness ==
    /\ pc = "done"
    /\ raised = "open"
    /\ caught = 1
    /\ \E e \in ExcTexts : output[Len(output) - 1] = ErrorLine(e)

\* C7: the named steps run at most once each, in the order geocode, generate,
\* render, save, open; nothing runs after a step that failed; the browser is
\* opened only after a completed save and the file written only after a
\* successful lookup.
C7_StrictOrder ==
    /\ IsPrefix(NamedSteps, Order)
    /\ raised # "" => pc = "done" /\ steps[Len(steps)] = raised
    /\ (GeocoderCalled /\ location = <<>>) => pc = "done"
    /\ browser # "uncalled" => file = "complete"
    /\ (\E k \in 1 .. Len(steps) : steps[k] = "open") => file = "complete"
    /\ file # "untouched" => location # <<>>

\* A run went through every step and showed the map.
C7_Witness ==
    /\ pc = "done"
    /\ NamedSteps = Order
    /\ browser = "shown"

\* C10: the success line is printed exactly when the save completed, and
\* before the browser is opened; a run whose browser launch raised ends with
\* the file written, the success line and the error line both printed.
C10_SuccessIffSaved ==
    /\ Printed("Map has been created successfully") <=> file = "complete"
    /\ (\E k \in 1 .. Len(steps) : steps[k] = "open") =>
          Printed("Map has been created successfully")
    /\ (pc = "done" /\ raised = "open") =>
          /\ file = "complete"
          /\ Printed("Map has been created successfully")
          /\ Printed("An error occurred")

\* A run ended in the handler after the file was written in full.
C10_Witness ==
    /\ pc = "done"
    /\ raised = "open"
    /\ file = "complete"
    /\ Printed("An error occurred")

====
